---------------------------- MODULE Spec2Model ----------------------------
(***************************************************************************)
(* Model of the NTFS parser tool layer (src/mcp_server.py): the six tools  *)
(* parse_mft, parse_usnjrnl, parse_logfile, extract_from_image,            *)
(* extract_and_analyze and analyze_artifacts, the decoder calls they make, *)
(* the results they return and the temporary directory they leave behind.  *)
(*                                                                         *)
(* The tools are synchronous; one runs at a time.  A call ends in          *)
(* pc = "returned" with its result in ret; the server then sends the result *)
(* and waits for the next request (pc = "idle"), keeping nothing of the    *)
(* call but the files it left.  The two image tools are stepped artifact   *)
(* by artifact so that every early exit of their loops is a state of the   *)
(* model.                                                                  *)
(***************************************************************************)
EXTENDS Integers, Sequences, FiniteSets, TLC

\* ------------------------------------------------------------------ bounds
\* Largest number of NTFS partitions find_ntfs_partitions returns.
MaxPartitions == 2

\* ----------------------------------------------------------- input domains
\* None of Python, as a path argument.
None == "<None>"

\* Output format strings a caller may pass; "xml" stands for any other string.
Formats == {"csv", "json", "sqlite", "xml"}

\* Path arguments: None, the empty string, a file that exists, one that does not.
PathArgs == {None, "", "file", "nofile"}

\* Path(p).exists() for the path arguments above.
Exists(p) == p = "file"

\* Python truthiness of a str | None argument.
Truthy(p) == p # None /\ p # ""

\* Indices of the partitions an image of n partitions has.
PartIdx(n) == 0 .. (n - 1)

\* The partition argument (int | None) as a sequence: <<>> is None, <<k>> is
\* the index k; indices before the first and past the last are included.
PartitionArgs == {<<>>} \cup {<<k>> : k \in -1 .. MaxPartitions}

Artifacts == {"mft", "usnjrnl", "logfile"}

\* What NTFSExtractor.extract_* can do: return True, return False, raise.
ExtractOutcome == {"ok", "absent", "raise"}

\* What a decoder call can do: return, raise.
DecodeOutcome == {"ok", "raise"}

VARIABLES
    pc,            \* "idle", or the step the running image tool is at
    call,          \* arguments of the running (or last) tool call
    todo,          \* partitions_to_process still to visit (indices)
    part_result,   \* the part_result being filled for Head(todo)
    results,       \* results["partitions"] so far
    attempts,      \* extractor calls made by the running call, in order
    decoderCalls,  \* decoder calls made by the running (or last) call
    ret,           \* what the last call returned
    tempDir,       \* output_dir/temp_extracted exists
    mftTemp        \* per partition index: temp_extracted/partition{i}_MFT,
                   \* "none" when there is no such file, else who wrote it:
                   \* "fresh" (the running call) or "stale" (an earlier one)

vars == <<pc, call, todo, part_result, results, attempts, decoderCalls, ret,
          tempDir, mftTemp>>

\* ------------------------------------------------------------ result shapes
NoCall == [tool |-> "none", output_format |-> "csv", partition |-> <<>>,
           skip_mft |-> FALSE, skip_usnjrnl |-> FALSE, skip_logfile |-> FALSE,
           keep_temp |-> FALSE, nparts |-> 0, temp_made |-> FALSE,
           mft_path |-> None, usnjrnl_path |-> None, logfile_path |-> None]

NoResult == [partition |-> -1, items |-> {}]

\* {"success": False, "error": ...}; the error text is modelled by its cause.
Failure(tool, cause) ==
    [tool |-> tool, success |-> FALSE, error |-> cause, partitions |-> <<>>,
     temp_cleaned |-> "unset", format |-> "", inputs |-> <<>>,
     path_resolution |-> FALSE]

Success(tool, fmt) ==
    [tool |-> tool, success |-> TRUE, error |-> "", partitions |-> <<>>,
     temp_cleaned |-> "unset", format |-> fmt, inputs |-> <<>>,
     path_resolution |-> FALSE]

\* One decoder call, with the keyword arguments the tool layer passes.
DecoderCall(decoder, i, fmt, ext, mft, incl_path, incl_deleted) ==
    [decoder |-> decoder, partition |-> i, output_format |-> fmt,
     out_ext |-> ext, mft_path |-> mft, include_path |-> incl_path,
     include_deleted |-> incl_deleted]

\* The statement a tool returns with: the loop state is gone, the result
\* is handed to the server.
Return(r) ==
    /\ pc' = "returned"
    /\ ret' = r
    /\ todo' = <<>>
    /\ part_result' = NoResult

TypeOK ==
    /\ pc \in {"idle", "returned", "ei_mft", "ei_logfile", "ei_usnjrnl",
               "ea_mft", "ea_usnjrnl", "ea_logfile", "ea_cleanup"}
    /\ tempDir \in BOOLEAN
    /\ mftTemp \in [PartIdx(MaxPartitions) -> {"none", "stale", "fresh"}]
    /\ ret.success \in BOOLEAN

Init ==
    /\ pc = "idle"
    /\ call = NoCall
    /\ todo = <<>>
    /\ part_result = NoResult
    /\ results = <<>>
    /\ attempts = <<>>
    /\ decoderCalls = {}
    /\ ret = Failure("none", "")
    /\ tempDir = FALSE
    /\ mftTemp = [i \in PartIdx(MaxPartitions) |-> "none"]

\* The server sends the result of the finished call and waits for the next
\* request: the call's arguments, locals and result are gone.
respond ==
    /\ pc = "returned"
    /\ pc' = "idle"
    /\ call' = NoCall
    /\ ret' = Failure("none", "")
    /\ results' = <<>>
    /\ attempts' = <<>>
    /\ decoderCalls' = {}
    /\ mftTemp' = [i \in DOMAIN mftTemp |->
                     IF mftTemp[i] = "none" THEN "none" ELSE "stale"]
    /\ UNCHANGED <<todo, part_result, tempDir>>

\* A tool is entered with its arguments bound.
Begin(c) ==
    /\ pc = "idle"
    /\ call' = c
    /\ results' = <<>>
    /\ attempts' = <<>>

\* ---------------------------------------------------------------- parse_mft
RecognizedFormats == {"csv", "json", "sqlite"}

\* The formats parse_mft, parse_usnjrnl, extract_and_analyze and
\* analyze_artifacts accept.
FormatOK(fmt) == fmt \in RecognizedFormats

LogFileFormats == {"csv", "json"}

\* The formats parse_logfile accepts.
LogFileFormatOK(fmt) == fmt \in LogFileFormats

parse_mft ==
    /\ pc = "idle"
    /\ \E input \in {"file", "nofile"}, fmt \in Formats,
       active_only \in BOOLEAN, include_path \in BOOLEAN,
       env \in {"ok", "ctor_raise", "parse_raise"} :
        /\ Begin([NoCall EXCEPT !.tool = "parse_mft", !.output_format = fmt,
                                !.mft_path = input])
        /\ UNCHANGED <<tempDir, mftTemp>>
        /\ IF ~Exists(input)
             THEN /\ decoderCalls' = {}
                  /\ Return(Failure("parse_mft", "input_not_found"))
           ELSE IF ~FormatOK(fmt)
             THEN /\ decoderCalls' = {}
                  /\ Return(Failure("parse_mft", "invalid_format"))
           ELSE IF env = "ctor_raise"
             THEN /\ decoderCalls' = {}
                  /\ Return(Failure("parse_mft", "exception"))
           ELSE /\ decoderCalls' =
                     {DecoderCall("parse_mft_file", -1, fmt, "", input,
                                  include_path, ~active_only)}
                /\ IF env = "parse_raise"
                     THEN Return(Failure("parse_mft", "exception"))
                     ELSE Return(Success("parse_mft", fmt))

\* ------------------------------------------------------------ parse_usnjrnl
parse_usnjrnl ==
    /\ pc = "idle"
    /\ \E input \in {"file", "nofile"}, fmt \in Formats, mft_path \in PathArgs,
       env \in DecodeOutcome :
        /\ Begin([NoCall EXCEPT !.tool = "parse_usnjrnl", !.output_format = fmt,
                                !.usnjrnl_path = input, !.mft_path = mft_path])
        /\ UNCHANGED <<tempDir, mftTemp>>
        /\ IF ~Exists(input)
             THEN /\ decoderCalls' = {}
                  /\ Return(Failure("parse_usnjrnl", "input_not_found"))
           ELSE IF Truthy(mft_path) /\ ~Exists(mft_path)
             THEN /\ decoderCalls' = {}
                  /\ Return(Failure("parse_usnjrnl", "mft_not_found"))
           ELSE IF ~FormatOK(fmt)
             THEN /\ decoderCalls' = {}
                  /\ Return(Failure("parse_usnjrnl", "invalid_format"))
           ELSE /\ decoderCalls' =
                     {DecoderCall("parse_usnjrnl", -1, fmt, "", mft_path,
                                  Truthy(mft_path), FALSE)}
                /\ IF env = "raise"
                     THEN Return(Failure("parse_usnjrnl", "exception"))
                     ELSE Return([Success("parse_usnjrnl", fmt) EXCEPT
                                     !.path_resolution = Truthy(mft_path)])

\* ------------------------------------------------------------ parse_logfile
parse_logfile ==
    /\ pc = "idle"
    /\ \E input \in {"file", "nofile"}, fmt \in Formats, env \in DecodeOutcome :
        /\ Begin([NoCall EXCEPT !.tool = "parse_logfile", !.output_format = fmt,
                                !.logfile_path = input])
        /\ UNCHANGED <<tempDir, mftTemp>>
        /\ IF ~Exists(input)
             THEN /\ decoderCalls' = {}
                  /\ Return(Failure("parse_logfile", "input_not_found"))
           ELSE IF ~LogFileFormatOK(fmt)
             THEN /\ decoderCalls' = {}
                  /\ Return(Failure("parse_logfile", "invalid_format"))
           ELSE /\ decoderCalls' =
                     {DecoderCall("parse_logfile", -1, fmt, "", None, FALSE, FALSE)}
                /\ IF env = "raise"
                     THEN Return(Failure("parse_logfile", "exception"))
                     ELSE Return(Success("parse_logfile", fmt))

\* -------------------------------------------------------- analyze_artifacts
\* Mutant of AnyInput: all() in place of any().
AnyInput_all(mft_path, usnjrnl_path, logfile_path) ==
    Truthy(mft_path) /\ Truthy(usnjrnl_path) /\ Truthy(logfile_path)

\* any([mft_path, usnjrnl_path, logfile_path])
AnyInput(mft_path, usnjrnl_path, logfile_path) ==
    Truthy(mft_path) \/ Truthy(usnjrnl_path) \/ Truthy(logfile_path)

\* The first input, in the order MFT, UsnJrnl, LogFile, that is given and does
\* not exist; None when there is none.
FirstMissing(mft_path, usnjrnl_path, logfile_path) ==
    IF Truthy(mft_path) /\ ~Exists(mft_path) THEN "MFT"
    ELSE IF Truthy(usnjrnl_path) /\ ~Exists(usnjrnl_path) THEN "UsnJrnl"
    ELSE IF Truthy(logfile_path) /\ ~Exists(logfile_path) THEN "LogFile"
    ELSE None

\* The keyword arguments of analyzer.analyze_all.
AnalyzeAllArgs(mft_path, usnjrnl_path, logfile_path, fmt) ==
    [decoder |-> "analyze_all", mft_path |-> mft_path,
     logfile_path |-> logfile_path, usnjrnl_path |-> usnjrnl_path,
     output_format |-> fmt]

analyze_artifacts ==
    /\ pc = "idle"
    /\ \E fmt \in Formats, mft_path \in PathArgs, usnjrnl_path \in PathArgs,
       logfile_path \in PathArgs, env \in DecodeOutcome :
        /\ Begin([NoCall EXCEPT !.tool = "analyze_artifacts",
                                !.output_format = fmt, !.mft_path = mft_path,
                                !.usnjrnl_path = usnjrnl_path,
                                !.logfile_path = logfile_path])
        /\ UNCHANGED <<tempDir, mftTemp>>
        /\ IF ~AnyInput(mft_path, usnjrnl_path, logfile_path)
             THEN /\ decoderCalls' = {}
                  /\ Return(Failure("analyze_artifacts", "no_input"))
           ELSE IF FirstMissing(mft_path, usnjrnl_path, logfile_path) # None
             THEN /\ decoderCalls' = {}
                  /\ Return(Failure("analyze_artifacts", "file_not_found"))
           ELSE IF ~FormatOK(fmt)
             THEN /\ decoderCalls' = {}
                  /\ Return(Failure("analyze_artifacts", "invalid_format"))
           ELSE /\ decoderCalls' =
                     {AnalyzeAllArgs(mft_path, usnjrnl_path, logfile_path, fmt)}
                /\ IF env = "raise"
                     THEN Return(Failure("analyze_artifacts", "exception"))
                     ELSE Return([Success("analyze_artifacts", fmt) EXCEPT
                                     !.inputs = <<mft_path, usnjrnl_path,
                                                  logfile_path>>])

\* ------------------------------------------------------- image tools, shared
\* partition < 0 or partition >= len(partitions), for a given partition.
InvalidPartition(partition, n) ==
    partition # <<>> /\ (partition[1] < 0 \/ partition[1] >= n)

\* partitions_to_process, as the indices it enumerates.
PartitionsToProcess(partition, n) ==
    IF partition # <<>> THEN partition ELSE [k \in 1 .. n |-> k - 1]

\* One extractor call of the running tool and, when a decoder call followed
\* it, what the decoder did ("none" when no decoder was called).
Attempt(i, art, outcome, decode) ==
    [partition |-> i, artifact |-> art, outcome |-> outcome,
     decode |-> IF outcome = "ok" THEN decode ELSE "none"]

\* What can raise between the making of the output directory and the loop:
\* ImageHandler (an ImportError when the E01 reader is missing) or
\* find_ntfs_partitions.
OpenFailures == {"exception:open", "missing_dependency"}

\* ------------------------------------------------------- extract_from_image
\* Mutant of Extracted: the artifact is entered whatever the call returned.
Extracted_unconditional(extracted, art, outcome) == extracted \cup {art}

\* part_result["extracted"] after one extractor call: the artifact is entered
\* when, and only when, the call returned True.
Extracted(extracted, art, outcome) ==
    IF outcome = "ok" THEN extracted \cup {art} ELSE extracted

extract_from_image_not_found ==
    /\ Begin([NoCall EXCEPT !.tool = "extract_from_image"])
    /\ decoderCalls' = {}
    /\ Return(Failure("extract_from_image", "image_not_found"))
    /\ UNCHANGED <<tempDir, mftTemp>>

\* mkdir, ImageHandler or find_ntfs_partitions raises.
extract_from_image_open_fails ==
    /\ pc = "idle"
    /\ \E partition \in PartitionArgs, cause \in OpenFailures \cup {"exception:mkdir"} :
        /\ Begin([NoCall EXCEPT !.tool = "extract_from_image",
                                !.partition = partition])
        /\ decoderCalls' = {}
        /\ Return(Failure("extract_from_image", cause))
        /\ UNCHANGED <<tempDir, mftTemp>>

extract_from_image_invalid_partition ==
    /\ pc = "idle"
    /\ \E partition \in PartitionArgs, n \in 0 .. MaxPartitions :
        /\ InvalidPartition(partition, n)
        /\ Begin([NoCall EXCEPT !.tool = "extract_from_image",
                                !.partition = partition, !.nparts = n])
        /\ decoderCalls' = {}
        /\ Return(Failure("extract_from_image", "invalid_partition"))
        /\ UNCHANGED <<tempDir, mftTemp>>

extract_from_image_start ==
    /\ pc = "idle"
    /\ \E partition \in PartitionArgs, n \in 0 .. MaxPartitions :
        /\ ~InvalidPartition(partition, n)
        /\ Begin([NoCall EXCEPT !.tool = "extract_from_image",
                                !.partition = partition, !.nparts = n])
        /\ decoderCalls' = {}
        /\ UNCHANGED <<tempDir, mftTemp>>
        /\ LET parts == PartitionsToProcess(partition, n) IN
             IF parts = <<>>
               THEN Return([Success("extract_from_image", "") EXCEPT
                               !.partitions = <<>>])
               ELSE /\ pc' = "ei_mft"
                    /\ todo' = parts
                    /\ part_result' = [partition |-> Head(parts), items |-> {}]
                    /\ UNCHANGED ret

\* NTFSExtractor(part) raises.
extract_from_image_extractor_fails ==
    /\ pc = "ei_mft"
    /\ Return(Failure("extract_from_image", "exception:NTFSExtractor"))
    /\ results' = <<>>
    /\ UNCHANGED <<call, attempts, decoderCalls, tempDir, mftTemp>>

\* extractor.extract_mft / extract_logfile of the current partition.
extract_from_image_extract(art, nextpc) ==
    /\ pc = "ei_" \o art
    /\ \E x \in ExtractOutcome :
        /\ attempts' = Append(attempts, Attempt(Head(todo), art, x, "none"))
        /\ IF x = "raise"
             THEN /\ Return(Failure("extract_from_image", "exception:extract"))
                  /\ results' = <<>>
             ELSE /\ pc' = nextpc
                  /\ part_result' =
                       [part_result EXCEPT !.items = Extracted(@, art, x)]
                  /\ UNCHANGED <<todo, results, ret>>
    /\ UNCHANGED <<call, decoderCalls, tempDir, mftTemp>>

\* extractor.extract_usnjrnl, then results["partitions"].append(part_result)
\* and the next partition, or the return after the last one.
extract_from_image_usnjrnl ==
    /\ pc = "ei_usnjrnl"
    /\ \E x \in ExtractOutcome :
        /\ attempts' = Append(attempts, Attempt(Head(todo), "usnjrnl", x, "none"))
        /\ IF x = "raise"
             THEN /\ Return(Failure("extract_from_image", "exception:extract"))
                  /\ results' = <<>>
             ELSE LET done == [part_result EXCEPT
                                  !.items = Extracted(@, "usnjrnl", x)]
                      all  == Append(results, done)
                  IN  IF Tail(todo) = <<>>
                        THEN /\ Return([Success("extract_from_image", "") EXCEPT
                                           !.partitions = all])
                             /\ results' = <<>>
                        ELSE /\ pc' = "ei_mft"
                             /\ todo' = Tail(todo)
                             /\ results' = all
                             /\ part_result' = [partition |-> Head(Tail(todo)),
                                                items |-> {}]
                             /\ UNCHANGED ret
    /\ UNCHANGED <<call, decoderCalls, tempDir, mftTemp>>

\* ------------------------------------------------------ extract_and_analyze
\* ext = '.db' if output_format == 'sqlite' else f'.{output_format}'
Ext(fmt) == IF fmt = "sqlite" THEN ".db" ELSE "." \o fmt

\* Mutant of LogfileFormat: the caller's format is passed on unchanged.
LogfileFormat_passthrough(fmt) == fmt

\* logfile_format = output_format if output_format != 'sqlite' else 'csv'
LogfileFormat(fmt) == IF fmt # "sqlite" THEN fmt ELSE "csv"

\* logfile_ext = '.csv' if output_format == 'sqlite' else ext
LogfileExt(fmt) == IF fmt = "sqlite" THEN ".csv" ELSE Ext(fmt)

\* mft_for_path: the temp MFT file when MFT is not skipped and the file
\* exists, else None.
MftForPath(skip_mft, file) ==
    IF ~skip_mft /\ file # "none" THEN file ELSE None

\* Mutant of Analyzed: a decoder exception is swallowed without a record.
Analyzed_swallow(analyzed, art, ext, outcome) ==
    IF outcome = "ok" THEN analyzed \cup {<<art, ext>>} ELSE analyzed

\* part_result["analyzed"] after one decoder call: the output under the
\* artifact's key, or the exception under '<artifact>_error'.
Analyzed(analyzed, art, ext, outcome) ==
    IF outcome = "ok" THEN analyzed \cup {<<art, ext>>}
                      ELSE analyzed \cup {<<art \o "_error", "exception">>}

\* The arguments extract_and_analyze is called with, and what it finds.
EACall(fmt, partition, sm, su, sl, keep, n, made) ==
    [NoCall EXCEPT !.tool = "extract_and_analyze", !.output_format = fmt,
                   !.partition = partition, !.skip_mft = sm,
                   !.skip_usnjrnl = su, !.skip_logfile = sl,
                   !.keep_temp = keep, !.nparts = n, !.temp_made = made]

EAArgs == Formats \X PartitionArgs \X BOOLEAN \X BOOLEAN \X BOOLEAN \X BOOLEAN

extract_and_analyze_not_found ==
    /\ Begin([NoCall EXCEPT !.tool = "extract_and_analyze"])
    /\ decoderCalls' = {}
    /\ Return(Failure("extract_and_analyze", "image_not_found"))
    /\ UNCHANGED <<tempDir, mftTemp>>

extract_and_analyze_invalid_format ==
    /\ pc = "idle"
    /\ \E a \in EAArgs :
        /\ ~FormatOK(a[1])
        /\ Begin(EACall(a[1], a[2], a[3], a[4], a[5], a[6], 0, FALSE))
        /\ decoderCalls' = {}
        /\ Return(Failure("extract_and_analyze", "invalid_format"))
        /\ UNCHANGED <<tempDir, mftTemp>>

\* output_path.mkdir or temp_dir.mkdir raises: nothing was created.
extract_and_analyze_mkdir_fails ==
    /\ pc = "idle"
    /\ \E a \in EAArgs :
        /\ FormatOK(a[1])
        /\ Begin(EACall(a[1], a[2], a[3], a[4], a[5], a[6], 0, FALSE))
        /\ decoderCalls' = {}
        /\ Return(Failure("extract_and_analyze", "exception:mkdir"))
        /\ UNCHANGED <<tempDir, mftTemp>>

\* ImageHandler or find_ntfs_partitions raises, after temp_dir was made.
extract_and_analyze_open_fails ==
    /\ pc = "idle"
    /\ \E a \in EAArgs, cause \in OpenFailures :
        /\ FormatOK(a[1])
        /\ Begin(EACall(a[1], a[2], a[3], a[4], a[5], a[6], 0, TRUE))
        /\ decoderCalls' = {}
        /\ tempDir' = TRUE
        /\ Return(Failure("extract_and_analyze", cause))
        /\ UNCHANGED mftTemp

extract_and_analyze_invalid_partition ==
    /\ pc = "idle"
    /\ \E a \in EAArgs, n \in 0 .. MaxPartitions :
        /\ FormatOK(a[1])
        /\ InvalidPartition(a[2], n)
        /\ Begin(EACall(a[1], a[2], a[3], a[4], a[5], a[6], n, TRUE))
        /\ decoderCalls' = {}
        /\ tempDir' = TRUE
        /\ Return(Failure("extract_and_analyze", "invalid_partition"))
        /\ UNCHANGED mftTemp

extract_and_analyze_start ==
    /\ pc = "idle"
    /\ \E a \in EAArgs, n \in 0 .. MaxPartitions :
        /\ FormatOK(a[1])
        /\ ~InvalidPartition(a[2], n)
        /\ Begin(EACall(a[1], a[2], a[3], a[4], a[5], a[6], n, TRUE))
        /\ decoderCalls' = {}
        /\ tempDir' = TRUE
        /\ LET parts == PartitionsToProcess(a[2], n) IN
             /\ todo' = parts
             /\ IF parts = <<>>
                  THEN /\ pc' = "ea_cleanup"
                       /\ part_result' = NoResult
                  ELSE /\ pc' = "ea_mft"
                       /\ part_result' = [partition |-> Head(parts), items |-> {}]
        /\ UNCHANGED <<ret, mftTemp>>

\* An exception outside the per-artifact try blocks: the call returns from
\* the outer except clause; the cleanup below it is not reached.
EAAbort(cause) ==
    /\ Return(Failure("extract_and_analyze", cause))
    /\ results' = <<>>
    /\ UNCHANGED <<call, decoderCalls, tempDir, mftTemp>>

\* NTFSExtractor(part) raises.
extract_and_analyze_extractor_fails ==
    /\ pc = "ea_mft"
    /\ EAAbort("exception:NTFSExtractor")
    /\ UNCHANGED attempts

\* The MFT block of the current partition.  An extract_mft that returns
\* False or raises leaves the output path as it found it.
extract_and_analyze_mft ==
    /\ pc = "ea_mft"
    /\ LET i == Head(todo) fmt == call.output_format IN
       IF call.skip_mft
         THEN /\ pc' = "ea_usnjrnl"
              /\ UNCHANGED <<call, todo, part_result, results, attempts,
                             decoderCalls, ret, tempDir, mftTemp>>
         ELSE \E x \in ExtractOutcome, d \in DecodeOutcome :
                /\ attempts' = Append(attempts, Attempt(i, "mft", x, d))
                /\ CASE x = "raise" -> EAAbort("exception:extract")
                     [] x = "absent" ->
                          /\ pc' = "ea_usnjrnl"
                          /\ UNCHANGED <<call, todo, part_result, results,
                                         decoderCalls, ret, tempDir, mftTemp>>
                     [] x = "ok" ->
                          /\ pc' = "ea_usnjrnl"
                          /\ mftTemp' = [mftTemp EXCEPT ![i] = "fresh"]
                          /\ decoderCalls' = decoderCalls \cup
                               {DecoderCall("parse_mft_file", i, fmt, Ext(fmt),
                                            "fresh", TRUE, TRUE)}
                          /\ part_result' = [part_result EXCEPT
                               !.items = Analyzed(@, "mft", Ext(fmt), d)]
                          /\ UNCHANGED <<call, todo, results, ret, tempDir>>

\* The UsnJrnl block of the current partition.
extract_and_analyze_usnjrnl ==
    /\ pc = "ea_usnjrnl"
    /\ LET i == Head(todo) fmt == call.output_format IN
       IF call.skip_usnjrnl
         THEN /\ pc' = "ea_logfile"
              /\ UNCHANGED <<call, todo, part_result, results, attempts,
                             decoderCalls, ret, tempDir, mftTemp>>
         ELSE \E x \in ExtractOutcome, d \in DecodeOutcome :
                /\ attempts' = Append(attempts, Attempt(i, "usnjrnl", x, d))
                /\ CASE x = "raise" -> EAAbort("exception:extract")
                     [] x = "absent" ->
                          /\ pc' = "ea_logfile"
                          /\ UNCHANGED <<call, todo, part_result, results,
                                         decoderCalls, ret, tempDir, mftTemp>>
                     [] x = "ok" ->
                          LET mft_for_path == MftForPath(call.skip_mft, mftTemp[i])
                          IN  /\ pc' = "ea_logfile"
                              /\ decoderCalls' = decoderCalls \cup
                                   {DecoderCall("parse_usnjrnl", i, fmt, Ext(fmt),
                                                mft_for_path,
                                                mft_for_path # None, FALSE)}
                              /\ part_result' = [part_result EXCEPT
                                   !.items = Analyzed(@, "usnjrnl", Ext(fmt), d)]
                              /\ UNCHANGED <<call, todo, results, ret, tempDir,
                                             mftTemp>>

\* The LogFile block of the current partition, then
\* results["partitions"].append(part_result) and the next partition.
extract_and_analyze_logfile ==
    /\ pc = "ea_logfile"
    /\ LET i == Head(todo) fmt == call.output_format IN
       \E x \in ExtractOutcome, d \in DecodeOutcome :
         /\ attempts' = IF call.skip_logfile THEN attempts
                        ELSE Append(attempts, Attempt(i, "logfile", x, d))
         /\ IF ~call.skip_logfile /\ x = "raise"
              THEN EAAbort("exception:extract")
              ELSE LET decoded == ~call.skip_logfile /\ x = "ok"
                       done == IF decoded
                                 THEN [part_result EXCEPT !.items =
                                         Analyzed(@, "logfile", LogfileExt(fmt), d)]
                                 ELSE part_result
                   IN  /\ decoderCalls' =
                            IF decoded
                              THEN decoderCalls \cup
                                     {DecoderCall("parse_logfile", i,
                                                  LogfileFormat(fmt),
                                                  LogfileExt(fmt), None,
                                                  FALSE, FALSE)}
                              ELSE decoderCalls
                       /\ results' = Append(results, done)
                       /\ todo' = Tail(todo)
                       /\ IF Tail(todo) = <<>>
                            THEN /\ pc' = "ea_cleanup"
                                 /\ part_result' = NoResult
                            ELSE /\ pc' = "ea_mft"
                                 /\ part_result' =
                                      [partition |-> Head(Tail(todo)), items |-> {}]
                       /\ UNCHANGED <<call, ret, tempDir, mftTemp>>

\* After the loop: shutil.rmtree(temp_dir) unless keep_temp, then the result.
\* An rmtree that raises leaves the directory; what it removed before it
\* raised is not modelled (the files stay).
extract_and_analyze_cleanup ==
    /\ pc = "ea_cleanup"
    /\ \E rm \in IF call.keep_temp THEN {"none"} ELSE {"ok", "raise"} :
         LET cleaned == IF call.keep_temp THEN "unset"
                        ELSE IF rm = "ok" THEN "True" ELSE "False"
         IN  /\ IF cleaned = "True"
                  THEN /\ tempDir' = FALSE
                       /\ mftTemp' = [i \in DOMAIN mftTemp |-> "none"]
                  ELSE UNCHANGED <<tempDir, mftTemp>>
             /\ Return([Success("extract_and_analyze", call.output_format) EXCEPT
                           !.partitions = results, !.temp_cleaned = cleaned])
    /\ results' = <<>>
    /\ UNCHANGED <<call, attempts, decoderCalls>>

\* ======================================================= claims, tool layer
\* The tool `tool` has just returned.
Returned(tool) == pc = "returned" /\ call.tool = tool

\* The partition indices a call with the running call's arguments must visit.
ExpectedParts ==
    IF call.partition = <<>> THEN [k \in 1 .. call.nparts |-> k - 1]
                             ELSE call.partition

\* The attempts made on partition i, as a set.
AttemptsOn(i) == {attempts[k] : k \in {j \in DOMAIN attempts : attempts[j].partition = i}}

\* C1: analyze_artifacts fails for missing inputs exactly when mft_path,
\* usnjrnl_path and logfile_path are all absent (None or empty), and then the
\* analyzer is not invoked; with at least one input given, every given file
\* existing and a recognized format, analyze_all is invoked once, with each
\* argument equal to the corresponding input (an absent one passed as absent).
C1_FailsOnlyWhenAllInputsAbsent ==
    Returned("analyze_artifacts") =>
        LET m == call.mft_path
            u == call.usnjrnl_path
            l == call.logfile_path
            given == {p \in {m, u, l} : p # None /\ p # ""}
        IN  /\ (ret.error = "no_input") <=> (given = {})
            /\ (given = {}) => (~ret.success /\ decoderCalls = {})
            /\ (given # {} /\ given = {"file"}
                  /\ call.output_format \in {"csv", "json", "sqlite"})
               => decoderCalls =
                    {[decoder |-> "analyze_all", mft_path |-> m,
                      usnjrnl_path |-> u, logfile_path |-> l,
                      output_format |-> call.output_format]}

\* C1 witness: only the USN journal is given, and the analyzer ran with it.
C1_Witness ==
    /\ Returned("analyze_artifacts")
    /\ ret.success
    /\ call.mft_path = None /\ call.logfile_path = None
    /\ call.usnjrnl_path = "file"
    /\ \E c \in decoderCalls : c.usnjrnl_path = "file" /\ c.mft_path = None

\* C2: in extract_from_image an extraction that returns False stops nothing:
\* the call fails only through a raised exception or a rejected argument,
\* and a successful call has attempted all three artifacts of every partition
\* to process, with each partition's 'extracted' map holding exactly the
\* artifacts whose extraction returned True.
C2_AbsentArtifactNotFatal ==
    Returned("extract_from_image") =>
        /\ ~ret.success =>
             \/ /\ ret.error \in {"image_not_found", "exception:mkdir",
                                  "exception:open", "missing_dependency",
                                  "invalid_partition"}
                /\ attempts = <<>>
             \/ ret.error = "exception:NTFSExtractor"
             \/ /\ attempts # <<>>
                /\ attempts[Len(attempts)].outcome = "raise"
        /\ (\A k \in DOMAIN attempts : attempts[k].outcome # "raise")
             /\ ret.error \notin {"image_not_found", "exception:mkdir",
                                  "exception:open", "missing_dependency",
                                  "invalid_partition", "exception:NTFSExtractor"}
           => /\ ret.success
              /\ Len(ret.partitions) = Len(ExpectedParts)
              /\ \A k \in DOMAIN ret.partitions :
                   LET r == ret.partitions[k] IN
                     /\ r.partition = ExpectedParts[k]
                     /\ {a.artifact : a \in AttemptsOn(r.partition)} = Artifacts
                     /\ r.items = {a.artifact :
                                     a \in {b \in AttemptsOn(r.partition) :
                                              b.outcome = "ok"}}

\* C2 witness: a successful call over two partitions in which an artifact of
\* the first partition was absent and a later extraction succeeded.
C2_Witness ==
    /\ Returned("extract_from_image")
    /\ ret.success
    /\ Len(ret.partitions) = 2
    /\ \E j, k \in DOMAIN attempts :
         /\ j < k
         /\ attempts[j].outcome = "absent" /\ attempts[j].partition = 0
         /\ attempts[k].outcome = "ok" /\ attempts[k].partition = 0
    /\ \E k \in DOMAIN attempts :
         attempts[k].partition = 1 /\ attempts[k].outcome = "ok"

\* The artifacts the running extract_and_analyze call does not skip.
NotSkipped ==
    {a \in Artifacts :
        \/ a = "mft" /\ ~call.skip_mft
        \/ a = "usnjrnl" /\ ~call.skip_usnjrnl
        \/ a = "logfile" /\ ~call.skip_logfile}

\* C7: in extract_and_analyze a decoder failure is local: the call fails only
\* through a rejected argument or an exception outside the decoder calls
\* (directory, image, partition table, extractor), never through a decoder;
\* a call in which nothing of that kind happened returns success with one
\* entry per partition to process, every non-skipped artifact of every such
\* partition was extracted, and each extracted artifact was decoded, with
\* its output, or '<artifact>_error' when the decoder raised, in the entry.
C7_DecodeFailureIsLocal ==
    Returned("extract_and_analyze") =>
        /\ ~ret.success =>
             \/ /\ ret.error \in {"image_not_found", "invalid_format",
                                  "exception:mkdir", "exception:open",
                                  "missing_dependency", "invalid_partition"}
                /\ attempts = <<>>
             \/ ret.error = "exception:NTFSExtractor"
             \/ /\ attempts # <<>>
                /\ attempts[Len(attempts)].outcome = "raise"
        /\ (\A k \in DOMAIN attempts : attempts[k].outcome # "raise")
             /\ ret.error \notin {"image_not_found", "invalid_format",
                                  "exception:mkdir", "exception:open",
                                  "missing_dependency", "invalid_partition",
                                  "exception:NTFSExtractor"}
           => /\ ret.success
              /\ Len(ret.partitions) = Len(ExpectedParts)
              /\ \A k \in DOMAIN ret.partitions :
                   LET r == ret.partitions[k] IN
                     /\ r.partition = ExpectedParts[k]
                     /\ {a.artifact : a \in AttemptsOn(r.partition)} = NotSkipped
                     /\ \A a \in AttemptsOn(r.partition) :
                          LET keys == {kv[1] : kv \in r.items} IN
                            /\ a.decode = "ok" =>
                                 /\ a.artifact \in keys
                                 /\ (a.artifact \o "_error") \notin keys
                            /\ a.decode = "raise" =>
                                 /\ (a.artifact \o "_error") \in keys
                                 /\ a.artifact \notin keys
                            /\ a.outcome = "absent" =>
                                 /\ a.artifact \notin keys
                                 /\ (a.artifact \o "_error") \notin keys
                            /\ a.outcome = "ok" =>
                                 \E c \in decoderCalls :
                                    /\ c.partition = r.partition
                                    /\ c.decoder =
                                         (CASE a.artifact = "mft" -> "parse_mft_file"
                                            [] a.artifact = "usnjrnl" -> "parse_usnjrnl"
                                            [] a.artifact = "logfile" -> "parse_logfile")

\* C7 witness: the MFT decoder raised on partition 0, and the call went on
\* to decode the journal of partition 0 and an artifact of partition 1.
C7_Witness ==
    /\ Returned("extract_and_analyze")
    /\ ret.success
    /\ Len(ret.partitions) = 2
    /\ <<"mft_error", "exception">> \in ret.partitions[1].items
    /\ "usnjrnl" \in {kv[1] : kv \in ret.partitions[1].items}
    /\ "logfile" \in {kv[1] : kv \in ret.partitions[2].items}

\* C8: the MFT handed to the USN decoder by extract_and_analyze was extracted
\* from the same partition by the same call, and when that call skipped the
\* MFT or its MFT extraction failed, the USN decoder gets no MFT and path
\* resolution is off, whatever earlier calls left in temp_extracted.
C8_UsnMftFromThisInvocation ==
    (call.tool = "extract_and_analyze") =>
        \A c \in decoderCalls :
            c.decoder = "parse_usnjrnl" =>
                LET extracted == \E a \in AttemptsOn(c.partition) :
                                    a.artifact = "mft" /\ a.outcome = "ok"
                IN  /\ c.mft_path \in {None, "fresh"}
                    /\ ~extracted => (c.mft_path = None /\ ~c.include_path)

\* C9: no decoder is called with a format outside its own set: a call of
\* parse_mft, parse_usnjrnl, extract_and_analyze or analyze_artifacts with a
\* format outside {csv, json, sqlite}, or of parse_logfile with one outside
\* {csv, json}, returns a failure with no decoder called; and
\* extract_and_analyze with sqlite calls the LogFile decoder with csv and a
\* '.csv' output name.
C9_DecoderFormatsClosed ==
    /\ \A c \in decoderCalls :
         /\ c.decoder = "parse_logfile" => c.output_format \in {"csv", "json"}
         /\ c.decoder \in {"parse_mft_file", "parse_usnjrnl", "analyze_all"}
              => c.output_format \in {"csv", "json", "sqlite"}
    /\ (pc = "returned"
          /\ call.tool \in {"parse_mft", "parse_usnjrnl", "extract_and_analyze",
                            "analyze_artifacts"}
          /\ call.output_format \notin {"csv", "json", "sqlite"})
       => (~ret.success /\ decoderCalls = {})
    /\ (Returned("parse_logfile") /\ call.output_format \notin {"csv", "json"})
       => (~ret.success /\ decoderCalls = {})
    /\ (call.tool = "extract_and_analyze" /\ call.output_format = "sqlite")
       => \A c \in decoderCalls :
            c.decoder = "parse_logfile" =>
                (c.output_format = "csv" /\ c.out_ext = ".csv")

\* C9 witness: extract_and_analyze ran with sqlite and decoded a LogFile.
C9_Witness ==
    /\ Returned("extract_and_analyze")
    /\ call.output_format = "sqlite"
    /\ \E c \in decoderCalls : c.decoder = "parse_logfile"
    /\ \E c \in decoderCalls : c.decoder = "parse_mft_file" /\ c.out_ext = ".db"

\* C10: whenever extract_and_analyze, called with keep_temp = false, returns
\* after it has made output_dir/temp_extracted, the directory is gone.  (The
\* return after a failed rmtree, which reports temp_cleaned = False, is left
\* out: the claim is tested on the exits on which nothing went wrong with the
\* removal itself.)
C10_TempRemovedOnEveryExit ==
    (Returned("extract_and_analyze") /\ ~call.keep_temp /\ call.temp_made
        /\ ret.temp_cleaned # "False")
    => ~tempDir

Next ==
    \/ respond
    \/ parse_mft
    \/ parse_usnjrnl
    \/ parse_logfile
    \/ analyze_artifacts
    \/ extract_from_image_not_found
    \/ extract_from_image_open_fails
    \/ extract_from_image_invalid_partition
    \/ extract_from_image_start
    \/ extract_from_image_extractor_fails
    \/ extract_from_image_extract("mft", "ei_logfile")
    \/ extract_from_image_extract("logfile", "ei_usnjrnl")
    \/ extract_from_image_usnjrnl
    \/ extract_and_analyze_not_found
    \/ extract_and_analyze_invalid_format
    \/ extract_and_analyze_mkdir_fails
    \/ extract_and_analyze_open_fails
    \/ extract_and_analyze_invalid_partition
    \/ extract_and_analyze_start
    \/ extract_and_analyze_extractor_fails
    \/ extract_and_analyze_mft
    \/ extract_and_analyze_usnjrnl
    \/ extract_and_analyze_logfile
    \/ extract_and_analyze_cleanup

Spec == Init /\ [][Next]_vars
=============================================================================
